---- MODULE Spec2Model ----
(***************************************************************************)
(* basestatus-processor: the feed ingestion path (scheduler tick ->        *)
(* POST /process-feeds -> processBatch -> upsert_service_event) and the    *)
(* enrichment path (POST /process-events -> processEvent, and              *)
(* POST /summarize-event), as state machines over one datastore table.     *)
(*                                                                         *)
(* One action is one run-to-completion stretch of JavaScript between two   *)
(* awaits: the settling of a promise together with every continuation it   *)
(* makes runnable.                                                         *)
(*                                                                         *)
(* utils.js names the clients `supabase` (processBatch) and `anthropic`    *)
(* (processEvent) without importing them; the model takes them to be the   *)
(* clients index.js creates (index.js:16-23), as they are for the          *)
(* processBatch of the same body that is local to the older entry file.    *)
(***************************************************************************)
EXTENDS Integers, Sequences, FiniteSets, TLC

\* ---------------------------------------------------------------- bounds
MaxServices == 2      \* rows of the services table
MaxItems    == 3      \* longest feed a fetch returns
NumGuids    == 2      \* distinct guids a feed cycles through
MaxRequests == 2      \* HTTP requests the server receives in one behaviour
MaxTicks    == 2      \* scheduler ticks in one behaviour
MaxFetches  == 2      \* feed fetches in one behaviour
MaxUpserts  == 3      \* feed items fetched, hence upserts, in one behaviour
MaxEvents   == 3      \* rows of service_events before a summarization run
MaxLlmCalls == 4      \* LLM calls in one behaviour
\* index.js passes 10 (index.js:283, index.js:221); the model scales the
\* group size down so that a feed of MaxItems items spans several groups.
batchSize   == 2
BATCH_SIZE  == 2
MaxBatchSize == 4     \* largest batchSize a direct call of processBatch is given

NULL == "NULL"        \* SQL NULL / JavaScript null
NoData == 0           \* `data: null` of an rpc result (row ids start at 1)

VARIABLES
  service_events,         \* the service_events table: a set of rows
  services,               \* the services table: a sequence of service ids
  req,                    \* r -> the HTTP exchange: kind, origin, pc, status, sent
  feeds,                  \* r -> /process-feeds locals: parse state and items per service
  batch,                  \* r -> s -> the processBatch call: pc, i, results, batchPromises
  evs,                    \* r -> /process-events and /summarize-event locals
  pe,                     \* r -> the processEvent calls of the run, by position in events
  cronJob,                \* t -> the tick's callback: "none", "await", "done"
  lastSuccessfulCronJob,  \* 0 for null, else the time of the last ok tick
  unhandledRejections,    \* rejected promises nothing handles
  alive                   \* the node process is running

vars == <<service_events, services, req, feeds, batch, evs, pe, cronJob,
          lastSuccessfulCronJob, unhandledRejections, alive>>

Requests == 1..MaxRequests
Ticks    == 1..MaxTicks
ServiceIds == 1..MaxServices

\* ------------------------------------------------------------ sequences
\* Array.prototype.slice(i, j) with 0-based i, j, clipped to the array.
SliceAll(a, i, j) == [k \in 1..(IF Len(a) > i THEN Len(a) - i ELSE 0) |-> a[i + k]]

\* Slice with its end taken as inclusive: slice(i, j + 1).
SliceInclusive(a, i, j) ==
  LET hi == IF j + 1 < Len(a) THEN j + 1 ELSE Len(a)
      n  == IF hi > i THEN hi - i ELSE 0
  IN  [k \in 1..n |-> a[i + k]]

Slice(a, i, j) ==
  LET hi == IF j < Len(a) THEN j ELSE Len(a)
      n  == IF hi > i THEN hi - i ELSE 0
  IN  [k \in 1..n |-> a[i + k]]

RECURSIVE SetToSeqById(_)
SetToSeqById(S) ==
  IF S = {} THEN <<>>
  ELSE LET m == CHOOSE x \in S : \A y \in S : x.id <= y.id
       IN  <<m>> \o SetToSeqById(S \ {m})

Range(a) == {a[k] : k \in 1..Len(a)}

\* ------------------------------------------------------------ datastore
\* What rss-parser yields for the j-th entry of a feed: the feed cycles through
\* NumGuids guids, so entry NumGuids + 1 repeats the first guid with new text.
FeedItem(j) ==
  LET v == ((j - 1) \div NumGuids) + 1
  IN  [guid    |-> ((j - 1) % NumGuids) + 1,
       title   |-> "t" \o ToString(v),
       content |-> "c" \o ToString(v),
       isoDate |-> "d" \o ToString(v)]

Feed(n) == [j \in 1..n |-> FeedItem(j)]

HasKey(tbl, sid, guid) == \E row \in tbl : row.service_id = sid /\ row.guid = guid

NextId(tbl) == Cardinality(tbl) + 1

\* upsert_service_event as a delete followed by an insert: the existing row
\* keeps its id and loses its structured fields.
upsert_replace(tbl, a) ==
  LET fresh(id) == [id |-> id,
                    service_id |-> a.p_service_id,
                    guid |-> a.p_guid,
                    title |-> a.p_title,
                    description |-> a.p_description,
                    pub_date |-> a.p_pub_date,
                    status |-> NULL,
                    translated_description |-> NULL,
                    accumulated_time_minutes |-> NULL,
                    severity |-> NULL]
  IN  IF HasKey(tbl, a.p_service_id, a.p_guid)
      THEN {IF row.service_id = a.p_service_id /\ row.guid = a.p_guid
            THEN fresh(row.id) ELSE row : row \in tbl}
      ELSE tbl \cup {fresh(NextId(tbl))}

\* The database function behind supabase.rpc("upsert_service_event"): insert a
\* row for a new (service id, guid), else update title, description and publish
\* timestamp of the existing one.
upsert_service_event(tbl, a) ==
  IF HasKey(tbl, a.p_service_id, a.p_guid)
  THEN {IF row.service_id = a.p_service_id /\ row.guid = a.p_guid
        THEN [row EXCEPT !.title = a.p_title,
                         !.description = a.p_description,
                         !.pub_date = a.p_pub_date]
        ELSE row : row \in tbl}
  ELSE tbl \cup {[id |-> NextId(tbl),
                  service_id |-> a.p_service_id,
                  guid |-> a.p_guid,
                  title |-> a.p_title,
                  description |-> a.p_description,
                  pub_date |-> a.p_pub_date,
                  status |-> NULL,
                  translated_description |-> NULL,
                  accumulated_time_minutes |-> NULL,
                  severity |-> NULL]}

RowOfKey(tbl, sid, guid) == CHOOSE row \in tbl : row.service_id = sid /\ row.guid = guid

\* ---------------------------------------------------------- processBatch
\* RpcArgs with title and content passed in each other's place.
RpcArgsSwapped(serviceId, item) ==
  [p_service_id  |-> serviceId,
   p_guid        |-> item.guid,
   p_title       |-> item.content,
   p_description |-> item.title,
   p_pub_date    |-> item.isoDate]

\* The arguments of one rpc call (utils.js:6-12).
RpcArgs(serviceId, item) ==
  [p_service_id  |-> serviceId,
   p_guid        |-> item.guid,
   p_title       |-> item.title,
   p_description |-> item.content,
   p_pub_date    |-> item.isoDate]

Pending == [state |-> "pending", data |-> NoData, error |-> NULL]

\* batch.map(item => supabase.rpc(...)): one promise per item of the group.
IssueGroup(group) == [k \in 1..Len(group) |-> Pending]

\* The value a settled rpc promise resolves to; the client never rejects.
Settled(data, error) == [state |-> "settled", data |-> data, error |-> error]

AllSettled(ps) == \A k \in 1..Len(ps) : ps[k].state = "settled"

\* await Promise.all(batchPromises): the results, in the order of the promises.
BatchResults(ps) == [k \in 1..Len(ps) |-> [data |-> ps[k].data, error |-> ps[k].error]]

\* One processBatch call: batchSize is the argument it was called with, and
\* rpcs[k] counts the rpc calls it has issued for items[k].
NoBatch == [pc |-> "none", i |-> 0, results |-> <<>>, batchPromises |-> <<>>,
            rpcs |-> <<>>, batchSize |-> 0]

\* The for loop of processBatch from index i on, up to its next await or its
\* return (utils.js:3-17).
LoopFrom(i, results, items, rpcs, size) ==
  IF i < Len(items)
  THEN LET group == Slice(items, i, i + size)
       IN  [pc |-> "await", i |-> i, results |-> results,
            batchPromises |-> IssueGroup(group),
            rpcs |-> [k \in DOMAIN rpcs |->
                        IF k \in (i + 1)..(i + Len(group))
                        THEN rpcs[k] + 1 ELSE rpcs[k]],
            batchSize |-> size]
  ELSE [pc |-> "returned", i |-> i, results |-> results, batchPromises |-> <<>>,
        rpcs |-> rpcs, batchSize |-> size]

\* AfterGroup as it would be if a failed rpc rejected its promise: the await
\* throws and the call ends with the results of the earlier groups only.
AfterGroupAbort(b, items) ==
  IF AllSettled(b.batchPromises)
  THEN IF \E k \in 1..Len(b.batchPromises) : b.batchPromises[k].error /= NULL
       THEN [pc |-> "returned", i |-> b.i, results |-> b.results, batchPromises |-> <<>>,
             rpcs |-> b.rpcs, batchSize |-> b.batchSize]
       ELSE LoopFrom(b.i + b.batchSize, b.results \o BatchResults(b.batchPromises),
                     items, b.rpcs, b.batchSize)
  ELSE b

\* AfterGroup with a retry: a group in which an rpc failed is issued again.
AfterGroupRetry(b, items) ==
  IF AllSettled(b.batchPromises)
  THEN IF \E k \in 1..Len(b.batchPromises) : b.batchPromises[k].error /= NULL
       THEN LoopFrom(b.i, b.results, items, b.rpcs, b.batchSize)
       ELSE LoopFrom(b.i + b.batchSize, b.results \o BatchResults(b.batchPromises),
                     items, b.rpcs, b.batchSize)
  ELSE b

\* AfterGroup as it would be if the await never resumed after a failed rpc.
AfterGroupHang(b, items) ==
  IF /\ AllSettled(b.batchPromises)
     /\ \A k \in 1..Len(b.batchPromises) : b.batchPromises[k].error = NULL
  THEN LoopFrom(b.i + b.batchSize, b.results \o BatchResults(b.batchPromises),
                items, b.rpcs, b.batchSize)
  ELSE b

\* What follows `await Promise.all(batchPromises)` once the group has settled:
\* results.push(...batchResults); i += batchSize; the loop test.
AfterGroup(b, items) ==
  IF AllSettled(b.batchPromises)
  THEN LoopFrom(b.i + b.batchSize, b.results \o BatchResults(b.batchPromises),
                items, b.rpcs, b.batchSize)
  ELSE b

\* -------------------------------------------------------- HTTP exchange
NoReq == [kind |-> "none", origin |-> 0, pc |-> "none", status |-> 0, sent |-> 0]

NewReq(kind, origin, pc) ==
  [kind |-> kind, origin |-> origin, pc |-> pc, status |-> 0, sent |-> 0]

\* res.status(code).send(...), the last statement of the handler's path.
Send(q, code) == [q EXCEPT !.pc = "done", !.status = code, !.sent = q.sent + 1]

FreeSlot(r) == req[r].kind = "none" /\ \A q \in 1..(r - 1) : req[q].kind /= "none"

FeedRuns == Cardinality({r \in Requests : req[r].kind = "process-feeds"})

\* The work a behaviour has taken on: the fetches its /process-feeds runs make,
\* the items those fetches have returned, the LLM calls its requests can make.
FetchLoad == Len(services) * FeedRuns

RECURSIVE SumLen(_, _)
SumLen(f, D) ==
  IF D = {} THEN 0
  ELSE LET d == CHOOSE x \in D : TRUE IN Len(f[d]) + SumLen(f, D \ {d})

UpsertLoad ==
  LET all == [p \in Requests \X ServiceIds |-> feeds[p[1]].items[p[2]]]
  IN  SumLen(all, Requests \X ServiceIds)

LlmLoad ==
  MaxEvents * Cardinality({r \in Requests : req[r].kind = "process-events"})
    + Cardinality({r \in Requests : req[r].kind = "summarize-event"})

\* fetches[s] counts the parser.parseURL calls the run has made for service s.
NoFeeds == [parse |-> [s \in ServiceIds |-> "none"],
            items |-> [s \in ServiceIds |-> <<>>],
            listError |-> FALSE,
            fetches |-> [s \in ServiceIds |-> 0]]

\* llmCalls and writes count the anthropic.messages.create calls and the row
\* updates a /summarize-event request has issued.
NoEvs == [events |-> <<>>, i |-> 0, eventId |-> 0, eventData |-> <<>>,
          fetchError |-> FALSE, llmCalls |-> 0, writes |-> 0, result |-> <<>>]

\* ------------------------------------------------------------ scheduler
Now == Cardinality({t \in Ticks : cronJob[t] /= "none"})

\* cron.schedule callback up to `await fetch(...)` (index.js:34-42): the tick
\* posts one /process-feeds request to the server's own URL.
CronTick(t, r) ==
  /\ alive
  /\ cronJob[t] = "none"
  /\ \A u \in 1..(t - 1) : cronJob[u] /= "none"
  /\ FreeSlot(r)
  /\ FetchLoad + Len(services) <= MaxFetches
  /\ cronJob' = [cronJob EXCEPT ![t] = "await"]
  /\ req' = [req EXCEPT ![r] = NewReq("process-feeds", t, "list")]
  /\ UNCHANGED <<service_events, services, feeds, batch, evs, pe,
                 lastSuccessfulCronJob, unhandledRejections, alive>>

\* fetch rejects (index.js:37, 53-54): the catch logs error.message.
CronFetchRejects(t) ==
  /\ alive
  /\ cronJob[t] = "await"
  /\ cronJob' = [cronJob EXCEPT ![t] = "done"]
  /\ UNCHANGED <<service_events, services, req, feeds, batch, evs, pe,
                 lastSuccessfulCronJob, unhandledRejections, alive>>

ResponseOf(t) == {r \in Requests : req[r].origin = t /\ req[r].status /= 0}

\* response.ok (index.js:44-52): the tick records the time of its success.
CronResponseOk(t) ==
  /\ alive
  /\ cronJob[t] = "await"
  /\ \E r \in ResponseOf(t) : req[r].status \in 200..299
  /\ cronJob' = [cronJob EXCEPT ![t] = "done"]
  /\ lastSuccessfulCronJob' = Now
  /\ UNCHANGED <<service_events, services, req, feeds, batch, evs, pe,
                 unhandledRejections, alive>>

\* CronResponseNotOk with the assignment of lastSuccessfulCronJob placed before
\* the test of response.ok.
CronResponseNotOkRecorded(t) ==
  /\ alive
  /\ cronJob[t] = "await"
  /\ \E r \in ResponseOf(t) : req[r].status \notin 200..299
  /\ cronJob' = [cronJob EXCEPT ![t] = "done"]
  /\ lastSuccessfulCronJob' = Now
  /\ unhandledRejections' = unhandledRejections + 1
  /\ alive' \in BOOLEAN
  /\ UNCHANGED <<service_events, services, req, feeds, batch, evs, pe>>

\* !response.ok (index.js:44-47, 53-54): response.json() is called and its
\* promise handed to console.log; the body of a 500 is plain text
\* (index.js:304), so that promise rejects and nothing handles it. The throw
\* is caught and logged. Whether the process survives an unhandled rejection
\* is the runtime's --unhandled-rejections mode.
CronResponseNotOk(t) ==
  /\ alive
  /\ cronJob[t] = "await"
  /\ \E r \in ResponseOf(t) : req[r].status \notin 200..299
  /\ cronJob' = [cronJob EXCEPT ![t] = "done"]
  /\ unhandledRejections' = unhandledRejections + 1
  /\ alive' \in BOOLEAN
  /\ UNCHANGED <<service_events, services, req, feeds, batch, evs, pe,
                 lastSuccessfulCronJob>>

\* -------------------------------------------------------- /process-feeds
\* An operator or another client posts /process-feeds (index.js:255).
PostProcessFeeds(r) ==
  /\ alive
  /\ FreeSlot(r)
  /\ FetchLoad + Len(services) <= MaxFetches
  /\ req' = [req EXCEPT ![r] = NewReq("process-feeds", 0, "list")]
  /\ UNCHANGED <<service_events, services, feeds, batch, evs, pe, cronJob,
                 lastSuccessfulCronJob, unhandledRejections, alive>>

\* ListServicesError without the throw: the error is noted and the handler
\* goes on to fetch the feeds of the services.
ListServicesErrorIgnored(r) ==
  /\ alive
  /\ req[r].kind = "process-feeds" /\ req[r].pc = "list"
  /\ req' = [req EXCEPT ![r].pc = "fetch"]
  /\ feeds' = [feeds EXCEPT ![r].listError = TRUE,
                            ![r].parse = [s \in ServiceIds |->
                                            IF s \in Range(services)
                                            THEN "pending" ELSE "none"],
                            ![r].fetches = [s \in ServiceIds |->
                                              IF s \in Range(services)
                                              THEN @[s] + 1 ELSE @[s]]]
  /\ UNCHANGED <<service_events, services, batch, evs, pe, cronJob,
                 lastSuccessfulCronJob, unhandledRejections, alive>>

\* The services select settles with an error (index.js:257-273): the throw
\* lands in the catch, which answers 500 (index.js:291-304).
ListServicesError(r) ==
  /\ alive
  /\ req[r].kind = "process-feeds" /\ req[r].pc = "list"
  /\ req' = [req EXCEPT ![r] = Send(req[r], 500)]
  /\ feeds' = [feeds EXCEPT ![r].listError = TRUE]
  /\ UNCHANGED <<service_events, services, batch, evs, pe, cronJob,
                 lastSuccessfulCronJob, unhandledRejections, alive>>

\* serviceData.map(service => parser.parseURL(service.feed_url)...): one fetch
\* per service, all started before the await (index.js:275-281).
StartFetches(serviceData) ==
  [s \in ServiceIds |-> IF s \in Range(serviceData) THEN "pending" ELSE "none"]

ListServicesOk(r) ==
  /\ alive
  /\ req[r].kind = "process-feeds" /\ req[r].pc = "list"
  /\ req' = [req EXCEPT ![r].pc = "fetch"]
  /\ feeds' = [feeds EXCEPT ![r].parse = StartFetches(services),
                            ![r].fetches = [s \in ServiceIds |->
                                              IF s \in Range(services)
                                              THEN @[s] + 1 ELSE @[s]]]
  /\ UNCHANGED <<service_events, services, batch, evs, pe, cronJob,
                 lastSuccessfulCronJob, unhandledRejections, alive>>

\* AllParsed without the barrier: one fetched feed is enough to go on.
AnyParsed(parse) == \E s \in ServiceIds : parse[s] = "ok"

AllParsed(parse) == \A s \in ServiceIds : parse[s] \in {"none", "ok"}

AllReturned(bs) == \A s \in ServiceIds : bs[s].pc \in {"none", "returned"}

\* serviceResults.map(service => processBatch(service.serviceId, service.items,
\* batchSize)): every call runs to its first await (index.js:283-286).
StartBatches(parse, items) ==
  [s \in ServiceIds |-> IF parse[s] = "ok"
                        THEN LoopFrom(0, <<>>, items[s], [k \in 1..Len(items[s]) |-> 0],
                                      batchSize)
                        ELSE NoBatch]

\* await Promise.all(allProcessingPromises), then the 200 (index.js:288-290).
AfterBatches(q, bs) == IF AllReturned(bs) THEN Send(q, 200) ELSE [q EXCEPT !.pc = "ingest"]

\* One parseURL resolves with a feed of n items; when it is the last one,
\* Promise.all(servicePromises) resolves and the handler goes on.
ParseURLResolve(r, s, n) ==
  /\ alive
  /\ req[r].kind = "process-feeds" /\ req[r].pc = "fetch"
  /\ feeds[r].parse[s] = "pending"
  /\ UpsertLoad + n <= MaxUpserts
  /\ LET parse == [feeds[r].parse EXCEPT ![s] = "ok"]
         items == [feeds[r].items EXCEPT ![s] = Feed(n)]
     IN  /\ feeds' = [feeds EXCEPT ![r].parse = parse, ![r].items = items]
         /\ IF AllParsed(parse)
            THEN /\ batch' = [batch EXCEPT ![r] = StartBatches(parse, items)]
                 /\ req' = [req EXCEPT ![r] = AfterBatches(req[r], batch'[r])]
            ELSE UNCHANGED <<batch, req>>
  /\ UNCHANGED <<service_events, services, evs, pe, cronJob,
                 lastSuccessfulCronJob, unhandledRejections, alive>>

\* One parseURL rejects: Promise.all(servicePromises) rejects with it, the
\* await throws into the catch and the handler answers 500 (index.js:281,
\* 291-304). What the other fetches bring later is dropped.
ParseURLReject(r, s) ==
  /\ alive
  /\ req[r].kind = "process-feeds" /\ req[r].pc = "fetch"
  /\ feeds[r].parse[s] = "pending"
  /\ feeds' = [feeds EXCEPT ![r].parse[s] = "failed"]
  /\ req' = [req EXCEPT ![r] = Send(req[r], 500)]
  /\ UNCHANGED <<service_events, services, batch, evs, pe, cronJob,
                 lastSuccessfulCronJob, unhandledRejections, alive>>

\* The item behind promise k of the current group.
ItemOf(b, items, k) == items[b.i + k]

\* One rpc promise settles. A successful call has run upsert_service_event and
\* resolves to the row's id; a failed one resolves to an error and leaves the
\* table alone. The last promise of a group resumes processBatch, and the last
\* processBatch to return resumes the handler.
UpsertSettle(r, s, k, ok) ==
  /\ alive
  /\ batch[r][s].pc = "await"
  /\ k \in 1..Len(batch[r][s].batchPromises)
  /\ batch[r][s].batchPromises[k].state = "pending"
  /\ LET b    == batch[r][s]
         args == RpcArgs(s, ItemOf(b, feeds[r].items[s], k))
         tbl  == IF ok THEN upsert_service_event(service_events, args) ELSE service_events
         res  == IF ok THEN Settled(RowOfKey(tbl, args.p_service_id, args.p_guid).id, NULL)
                       ELSE Settled(NoData, "error")
         b1   == [b EXCEPT !.batchPromises[k] = res]
     IN  /\ service_events' = tbl
         /\ batch' = [batch EXCEPT ![r][s] = AfterGroup(b1, feeds[r].items[s])]
         /\ req' = IF req[r].pc = "ingest" /\ AllReturned(batch'[r])
                   THEN [req EXCEPT ![r] = Send(req[r], 200)]
                   ELSE req
  /\ UNCHANGED <<services, feeds, evs, pe, cronJob,
                 lastSuccessfulCronJob, unhandledRejections, alive>>

\* ------------------------------------------------------ LLM collaborator
\* What msg.content[0].text can be: text that is no JSON, the JSON literal
\* null, or a JSON object, given by its properties.
EmptyObject == [c \in {} |-> NULL]

ValidSummary ==
  [status |-> "resolved", translated_description |-> "<p>summary</p>",
   accumulated_time_minutes |-> "5", severity |-> "minor"]

PartialSummary == [status |-> "ongoing", severity |-> "major"]

ExtraSummary ==
  [status |-> "resolved", translated_description |-> "<p>summary</p>",
   accumulated_time_minutes |-> "5", severity |-> "minor",
   description |-> "rewritten"]

LlmTexts ==
  {[json |-> "invalid", object |-> EmptyObject],
   [json |-> "null", object |-> EmptyObject],
   [json |-> "object", object |-> ValidSummary],
   [json |-> "object", object |-> PartialSummary],
   [json |-> "object", object |-> ExtraSummary]}

\* JSON.parse(text) followed by the `if (!res) throw` test (utils.js:90-94,
\* index.js:175-190): TRUE when the statements throw.
ParseThrows(text) == text.json = "invalid" \/ text.json = "null"

\* UpdateEqId without its .eq("id", id) filter: every row is updated.
UpdateEveryRow(tbl, id, res) ==
  {[c \in DOMAIN row |-> IF c \in DOMAIN res THEN res[c] ELSE row[c]] : row \in tbl}

\* supabase.from("service_events").update({ ...res }).eq("id", id): the
\* properties of res overwrite the columns of the rows whose id matches.
UpdateEqId(tbl, id, res) ==
  {IF row.id = id
   THEN [c \in DOMAIN row |-> IF c \in DOMAIN res THEN res[c] ELSE row[c]]
   ELSE row : row \in tbl}

\* ----------------------------------------------------------- processEvent
\* One processEvent call: started counts the calls made for the event,
\* llmCalls and writes the anthropic.messages.create calls and the row updates
\* it has issued.
NoTask == [pc |-> "none", res |-> EmptyObject, started |-> 0, llmCalls |-> 0,
           writes |-> 0]

\* batch.map(event => processEvent(event, supabase)): each call runs to its
\* await of anthropic.messages.create (utils.js:20-22, index.js:234-236).
StartGroup(tasks, i, group) ==
  [k \in 1..Len(tasks) |->
     IF k \in (i + 1)..(i + Len(group))
     THEN [pc |-> "llm", res |-> EmptyObject, started |-> tasks[k].started + 1,
           llmCalls |-> tasks[k].llmCalls + 1, writes |-> tasks[k].writes]
     ELSE tasks[k]]

\* GroupResolved as Promise.any would have it: one resolved call is enough.
GroupAnyResolved(tasks, i, group) ==
  \E k \in (i + 1)..(i + Len(group)) : tasks[k].pc = "resolved"

GroupResolved(tasks, i, group) ==
  \A k \in (i + 1)..(i + Len(group)) : tasks[k].pc = "resolved"

\* The for loop of /process-events from index i on (index.js:233-239): the
\* next group is started, or the handler returns a Response object it never
\* sends.
EventsLoopFrom(q, e, tasks, i) ==
  IF i < Len(e.events)
  THEN [q |-> [q EXCEPT !.pc = "loop"],
        e |-> [e EXCEPT !.i = i],
        tasks |-> StartGroup(tasks, i, Slice(e.events, i, i + BATCH_SIZE))]
  ELSE [q |-> [q EXCEPT !.pc = "done"],
        e |-> [e EXCEPT !.i = i],
        tasks |-> tasks]

\* The row update of processEvent (utils.js:96-100).
processEvent_update(tbl, event, res) == UpdateEqId(tbl, event.id, res)

\* The row update of /summarize-event (index.js:192-196).
summarize_update(tbl, eventId, result) == UpdateEqId(tbl, eventId, result)

\* A processEvent call rejects (utils.js:107-110). While the handler awaits
\* Promise.all of the call's group, the rejection throws into the handler's
\* catch, which answers 500 (index.js:236, 240-251).
HandlerAfterReject(q) == IF q.pc = "loop" THEN Send(q, 500) ELSE q

\* --------------------------------------------------------- /process-events
PostProcessEvents(r) ==
  /\ alive
  /\ FreeSlot(r)
  /\ LlmLoad + MaxEvents <= MaxLlmCalls
  /\ req' = [req EXCEPT ![r] = NewReq("process-events", 0, "select")]
  /\ UNCHANGED <<service_events, services, feeds, batch, evs, pe, cronJob,
                 lastSuccessfulCronJob, unhandledRejections, alive>>

\* The select settles with fetchError (index.js:224-231, 240-251).
SelectEventsError(r) ==
  /\ alive
  /\ req[r].kind = "process-events" /\ req[r].pc = "select"
  /\ req' = [req EXCEPT ![r] = Send(req[r], 500)]
  /\ evs' = [evs EXCEPT ![r].fetchError = TRUE]
  /\ UNCHANGED <<service_events, services, feeds, batch, pe, cronJob,
                 lastSuccessfulCronJob, unhandledRejections, alive>>

\* .select("*").is("translated_description", null) (index.js:224-227).
SelectUnsummarized(tbl) ==
  SetToSeqById({row \in tbl : row.translated_description = NULL})

SelectEventsOk(r) ==
  /\ alive
  /\ req[r].kind = "process-events" /\ req[r].pc = "select"
  /\ LET events == SelectUnsummarized(service_events)
         next   == EventsLoopFrom(req[r], [evs[r] EXCEPT !.events = events],
                                  [k \in 1..Len(events) |-> NoTask], 0)
     IN  /\ req' = [req EXCEPT ![r] = next.q]
         /\ evs' = [evs EXCEPT ![r] = next.e]
         /\ pe' = [pe EXCEPT ![r] = next.tasks]
  /\ UNCHANGED <<service_events, services, feeds, batch, cronJob,
                 lastSuccessfulCronJob, unhandledRejections, alive>>

\* anthropic.messages.create resolves with `text` (utils.js:22-94): a text
\* that does not parse, or parses to null, throws into the catch of
\* processEvent; otherwise the update is issued.
LlmResolve(r, k, text) ==
  /\ alive
  /\ k \in 1..Len(pe[r])
  /\ pe[r][k].pc = "llm"
  /\ IF ParseThrows(text)
     THEN /\ pe' = [pe EXCEPT ![r][k].pc = "rejected"]
          /\ req' = [req EXCEPT ![r] = HandlerAfterReject(req[r])]
     ELSE /\ pe' = [pe EXCEPT ![r][k].pc = "update", ![r][k].res = text.object,
                              ![r][k].writes = @ + 1]
          /\ req' = req
  /\ UNCHANGED <<service_events, services, feeds, batch, evs, cronJob,
                 lastSuccessfulCronJob, unhandledRejections, alive>>

\* anthropic.messages.create rejects (utils.js:22, 107-110).
LlmReject(r, k) ==
  /\ alive
  /\ k \in 1..Len(pe[r])
  /\ pe[r][k].pc = "llm"
  /\ pe' = [pe EXCEPT ![r][k].pc = "rejected"]
  /\ req' = [req EXCEPT ![r] = HandlerAfterReject(req[r])]
  /\ UNCHANGED <<service_events, services, feeds, batch, evs, cronJob,
                 lastSuccessfulCronJob, unhandledRejections, alive>>

\* The update of processEvent settles (utils.js:96-106). Without an error the
\* call resolves, and the last call of a group to resolve resumes the loop of
\* the handler; with upsertError the call throws and rejects.
UpdateSettle(r, k, ok) ==
  /\ alive
  /\ k \in 1..Len(pe[r])
  /\ pe[r][k].pc = "update"
  /\ IF ok
     THEN LET tasks == [pe[r] EXCEPT ![k].pc = "resolved"]
              e     == evs[r]
              group == Slice(e.events, e.i, e.i + BATCH_SIZE)
              next  == IF req[r].pc = "loop" /\ GroupResolved(tasks, e.i, group)
                       THEN EventsLoopFrom(req[r], e, tasks, e.i + BATCH_SIZE)
                       ELSE [q |-> req[r], e |-> e, tasks |-> tasks]
          IN  /\ service_events' =
                   processEvent_update(service_events, e.events[k], pe[r][k].res)
              /\ pe' = [pe EXCEPT ![r] = next.tasks]
              /\ evs' = [evs EXCEPT ![r] = next.e]
              /\ req' = [req EXCEPT ![r] = next.q]
     ELSE /\ pe' = [pe EXCEPT ![r][k].pc = "rejected"]
          /\ req' = [req EXCEPT ![r] = HandlerAfterReject(req[r])]
          /\ UNCHANGED <<service_events, evs>>
  /\ UNCHANGED <<services, feeds, batch, cronJob,
                 lastSuccessfulCronJob, unhandledRejections, alive>>

\* -------------------------------------------------------- /summarize-event
\* POST /summarize-event with body { eventId } (index.js:67-76).
PostSummarizeEvent(r, eventId) ==
  /\ alive
  /\ FreeSlot(r)
  /\ LlmLoad + 1 <= MaxLlmCalls
  /\ req' = [req EXCEPT ![r] = NewReq("summarize-event", 0, "select")]
  /\ evs' = [evs EXCEPT ![r].eventId = eventId]
  /\ UNCHANGED <<service_events, services, feeds, batch, pe, cronJob,
                 lastSuccessfulCronJob, unhandledRejections, alive>>

\* .select("*").eq("id", eventId) (index.js:73-76).
SelectById(tbl, eventId) == SetToSeqById({row \in tbl : row.id = eventId})

\* The select settles with eventError (index.js:78-95, 204-216).
SummarizeSelectError(r) ==
  /\ alive
  /\ req[r].kind = "summarize-event" /\ req[r].pc = "select"
  /\ req' = [req EXCEPT ![r] = Send(req[r], 500)]
  /\ evs' = [evs EXCEPT ![r].fetchError = TRUE]
  /\ UNCHANGED <<service_events, services, feeds, batch, pe, cronJob,
                 lastSuccessfulCronJob, unhandledRejections, alive>>

\* The select settles with rows (index.js:78-97): no row throws into the
\* catch, which answers 500; otherwise the LLM is called with
\* eventData[0].description.
SummarizeSelectOk(r) ==
  /\ alive
  /\ req[r].kind = "summarize-event" /\ req[r].pc = "select"
  /\ LET eventData == SelectById(service_events, evs[r].eventId)
     IN  /\ evs' = [evs EXCEPT ![r].eventData = eventData,
                               ![r].llmCalls = IF Len(eventData) = 0 THEN @ ELSE @ + 1]
         /\ req' = [req EXCEPT ![r] = IF Len(eventData) = 0
                                      THEN Send(req[r], 500)
                                      ELSE [req[r] EXCEPT !.pc = "llm"]]
  /\ UNCHANGED <<service_events, services, feeds, batch, pe, cronJob,
                 lastSuccessfulCronJob, unhandledRejections, alive>>

\* anthropic.messages.create resolves with `text` (index.js:97-196).
SummarizeLlmResolve(r, text) ==
  /\ alive
  /\ req[r].kind = "summarize-event" /\ req[r].pc = "llm"
  /\ IF ParseThrows(text)
     THEN /\ req' = [req EXCEPT ![r] = Send(req[r], 500)]
          /\ evs' = evs
     ELSE /\ req' = [req EXCEPT ![r].pc = "update"]
          /\ evs' = [evs EXCEPT ![r].result = text.object, ![r].writes = @ + 1]
  /\ UNCHANGED <<service_events, services, feeds, batch, pe, cronJob,
                 lastSuccessfulCronJob, unhandledRejections, alive>>

\* anthropic.messages.create rejects (index.js:97, 204-216).
SummarizeLlmReject(r) ==
  /\ alive
  /\ req[r].kind = "summarize-event" /\ req[r].pc = "llm"
  /\ req' = [req EXCEPT ![r] = Send(req[r], 500)]
  /\ UNCHANGED <<service_events, services, feeds, batch, evs, pe, cronJob,
                 lastSuccessfulCronJob, unhandledRejections, alive>>

\* SummarizeUpdateSettle with a retry: on upsertError the update is issued
\* again.
SummarizeUpdateRetry(r, ok) ==
  /\ alive
  /\ req[r].kind = "summarize-event" /\ req[r].pc = "update"
  /\ service_events' = IF ok
                       THEN summarize_update(service_events, evs[r].eventId, evs[r].result)
                       ELSE service_events
  /\ req' = IF ok THEN [req EXCEPT ![r] = Send(req[r], 200)] ELSE req
  /\ evs' = IF ok THEN evs ELSE [evs EXCEPT ![r].writes = @ + 1]
  /\ UNCHANGED <<services, feeds, batch, pe, cronJob,
                 lastSuccessfulCronJob, unhandledRejections, alive>>

\* The update settles (index.js:192-216): 200 without an error, 500 with
\* upsertError.
SummarizeUpdateSettle(r, ok) ==
  /\ alive
  /\ req[r].kind = "summarize-event" /\ req[r].pc = "update"
  /\ service_events' = IF ok
                       THEN summarize_update(service_events, evs[r].eventId, evs[r].result)
                       ELSE service_events
  /\ req' = [req EXCEPT ![r] = Send(req[r], IF ok THEN 200 ELSE 500)]
  /\ UNCHANGED <<services, feeds, batch, evs, pe, cronJob,
                 lastSuccessfulCronJob, unhandledRejections, alive>>

\* ------------------------------------------------------------ behaviours
\* The state after the module has loaded (index.js:11-32): no request, no
\* tick, lastSuccessfulCronJob null.
InitProcess ==
  /\ req = [r \in Requests |-> NoReq]
  /\ feeds = [r \in Requests |-> NoFeeds]
  /\ batch = [r \in Requests |-> [s \in ServiceIds |-> NoBatch]]
  /\ evs = [r \in Requests |-> NoEvs]
  /\ pe = [r \in Requests |-> <<>>]
  /\ cronJob = [t \in Ticks |-> "none"]
  /\ lastSuccessfulCronJob = 0
  /\ unhandledRejections = 0
  /\ alive = TRUE

\* An event as ingestion leaves it: structured fields null.
IngestedEvent(id, description) ==
  [id |-> id, service_id |-> 1, guid |-> id,
   title |-> "t1", description |-> description, pub_date |-> "d1",
   status |-> NULL, translated_description |-> NULL,
   accumulated_time_minutes |-> NULL, severity |-> NULL]

\* Ingestion path: an empty service_events table and 1..MaxServices services.
Init ==
  /\ InitProcess
  /\ service_events = {}
  /\ \E n \in 1..MaxServices : services = [i \in 1..n |-> i]

\* Enrichment path: MaxEvents ingested events, the last of them with or
\* without a description.
InitEvents ==
  /\ InitProcess
  /\ services = <<1>>
  /\ \E e \in {0, MaxEvents} :
       service_events =
         {IngestedEvent(id, IF id = e THEN "" ELSE "c1") : id \in 1..MaxEvents}

\* An event of service 1 that an earlier run ingested and the summarizer has
\* filled in since.
SummarizedEvent ==
  [id |-> 1, service_id |-> 1, guid |-> 1,
   title |-> "t0", description |-> "c0", pub_date |-> "d0",
   status |-> "resolved", translated_description |-> "<p>summary</p>",
   accumulated_time_minutes |-> "5", severity |-> "minor"]

\* Ingestion over a table that holds a summarized event: one service, whose
\* feed carries the event's guid again.
InitReingest ==
  /\ InitProcess
  /\ services = <<1>>
  /\ service_events = {SummarizedEvent}

NextIngest ==
  \/ \E t \in Ticks, r \in Requests : CronTick(t, r)
  \/ \E t \in Ticks : CronFetchRejects(t)
  \/ \E t \in Ticks : CronResponseOk(t)
  \/ \E t \in Ticks : CronResponseNotOk(t)
  \/ \E r \in Requests : PostProcessFeeds(r)
  \/ \E r \in Requests : ListServicesError(r)
  \/ \E r \in Requests : ListServicesOk(r)
  \/ \E r \in Requests, s \in ServiceIds, n \in 0..MaxItems : ParseURLResolve(r, s, n)
  \/ \E r \in Requests, s \in ServiceIds : ParseURLReject(r, s)
  \/ \E r \in Requests, s \in ServiceIds, k \in 1..batchSize, ok \in BOOLEAN :
       UpsertSettle(r, s, k, ok)

NextEvents ==
  \/ \E r \in Requests : PostProcessEvents(r)
  \/ \E r \in Requests : SelectEventsError(r)
  \/ \E r \in Requests : SelectEventsOk(r)
  \/ \E r \in Requests, k \in 1..MaxEvents, text \in LlmTexts : LlmResolve(r, k, text)
  \/ \E r \in Requests, k \in 1..MaxEvents : LlmReject(r, k)
  \/ \E r \in Requests, k \in 1..MaxEvents, ok \in BOOLEAN : UpdateSettle(r, k, ok)
  \/ \E r \in Requests, id \in 1..(MaxEvents + 1) : PostSummarizeEvent(r, id)
  \/ \E r \in Requests : SummarizeSelectError(r)
  \/ \E r \in Requests : SummarizeSelectOk(r)
  \/ \E r \in Requests, text \in LlmTexts : SummarizeLlmResolve(r, text)
  \/ \E r \in Requests : SummarizeLlmReject(r)
  \/ \E r \in Requests, ok \in BOOLEAN : SummarizeUpdateSettle(r, ok)

Next == NextIngest \/ NextEvents

\* processBatch called on its own (utils.js:1): request 1 is a caller that has
\* fetched a feed of n items for service 1 and awaits processBatch(1, items,
\* size), for every n up to MaxItems and every size from 1 to MaxBatchSize.
InitProcessBatch ==
  /\ service_events = {}
  /\ services = <<1>>
  /\ \E n \in 0..MaxItems, size \in 1..MaxBatchSize :
       LET items == Feed(n)
           calls == [s \in ServiceIds |->
                       IF s = 1
                       THEN LoopFrom(0, <<>>, items, [k \in 1..n |-> 0], size)
                       ELSE NoBatch]
           fetched == [NoFeeds EXCEPT !.parse[1] = "ok", !.items[1] = items,
                                      !.fetches[1] = 1]
       IN  /\ feeds = [r \in Requests |-> IF r = 1 THEN fetched ELSE NoFeeds]
           /\ batch = [r \in Requests |->
                         IF r = 1 THEN calls ELSE [s \in ServiceIds |-> NoBatch]]
           /\ req = [r \in Requests |->
                       IF r = 1
                       THEN AfterBatches(NewReq("process-feeds", 0, "fetch"), calls)
                       ELSE NoReq]
  /\ evs = [r \in Requests |-> NoEvs]
  /\ pe = [r \in Requests |-> <<>>]
  /\ cronJob = [t \in Ticks |-> "none"]
  /\ lastSuccessfulCronJob = 0
  /\ unhandledRejections = 0
  /\ alive = TRUE

NextProcessBatch ==
  \E r \in Requests, s \in ServiceIds, k \in 1..MaxBatchSize, ok \in BOOLEAN :
    UpsertSettle(r, s, k, ok)

\* One processBatch call, for every item count and batchSize within the bounds.
SpecProcessBatch == InitProcessBatch /\ [][NextProcessBatch]_vars

\* /process-events posted over a table of n unsummarized events, for every n
\* up to MaxEvents (index.js:220-227).
InitProcessEvents ==
  /\ services = <<1>>
  /\ \E n \in 0..MaxEvents : service_events = {IngestedEvent(id, "c1") : id \in 1..n}
  /\ req = [r \in Requests |->
              IF r = 1 THEN NewReq("process-events", 0, "select") ELSE NoReq]
  /\ feeds = [r \in Requests |-> NoFeeds]
  /\ batch = [r \in Requests |-> [s \in ServiceIds |-> NoBatch]]
  /\ evs = [r \in Requests |-> NoEvs]
  /\ pe = [r \in Requests |-> <<>>]
  /\ cronJob = [t \in Ticks |-> "none"]
  /\ lastSuccessfulCronJob = 0
  /\ unhandledRejections = 0
  /\ alive = TRUE

\* The steps of the two batched loops: a promise they await settles.
NextLoops ==
  \/ \E r \in Requests, s \in ServiceIds, k \in 1..MaxBatchSize, ok \in BOOLEAN :
       UpsertSettle(r, s, k, ok)
  \/ \E r \in Requests : SelectEventsError(r)
  \/ \E r \in Requests : SelectEventsOk(r)
  \/ \E r \in Requests, k \in 1..MaxEvents, text \in LlmTexts : LlmResolve(r, k, text)
  \/ \E r \in Requests, k \in 1..MaxEvents : LlmReject(r, k)
  \/ \E r \in Requests, k \in 1..MaxEvents, ok \in BOOLEAN : UpdateSettle(r, k, ok)

\* One processBatch call, or one /process-events request, in which every
\* promise that is awaited settles in the end: while one is pending, one settles.
\* That is the claim's own hypothesis; the runtime settles a promise whose
\* network call ends.
InitLoops == InitProcessBatch \/ InitProcessEvents

SpecLoops == InitLoops /\ [][NextLoops]_vars /\ WF_vars(NextLoops)

\* Ingestion runs over an already summarized event.
SpecReingest == InitReingest /\ [][NextIngest]_vars

\* The scheduler and the ingestion path.
Spec == Init /\ [][NextIngest]_vars

\* The enrichment path over a table of ingested events.
SpecEvents == InitEvents /\ [][NextEvents]_vars

\* Both paths over one table.
SpecAll == Init /\ [][Next]_vars

\* ================================================================ claims
FeedReqs == {r \in Requests : req[r].kind = "process-feeds"}
EventReqs == {r \in Requests : req[r].kind = "process-events"}
SummarizeReqs == {r \in Requests : req[r].kind = "summarize-event"}

InFlight(b) ==
  Cardinality({k \in 1..Len(b.batchPromises) : b.batchPromises[k].state = "pending"})

C2_FanoutResilience ==
  \A r \in FeedReqs :
    (req[r].pc = "done" /\ ~feeds[r].listError) =>
      \A s \in ServiceIds :
        feeds[r].parse[s] = "ok" => (batch[r][s].pc = "returned" /\ req[r].status = 200)

ActiveTasks(r) == {k \in 1..Len(pe[r]) : pe[r][k].pc \in {"llm", "update"}}

RunFinished(r) == req[r].pc = "done" /\ ActiveTasks(r) = {}

\* C3: once a /process-events run is over, every selected event has been
\* passed to processEvent, whichever calls failed.
C3_SummarizationIsolation ==
  \A r \in EventReqs :
    RunFinished(r) => \A k \in 1..Len(pe[r]) : pe[r][k].pc /= "none"

RowOfId(tbl, id) == CHOOSE row \in tbl : row.id = id

\* C4: once a /process-events run is over, every selected event with a
\* description has a translated_description or a failed attempt.
C4_SelectionPostCondition ==
  \A r \in EventReqs :
    RunFinished(r) =>
      \A k \in 1..Len(evs[r].events) :
        evs[r].events[k].description /= "" =>
          \/ RowOfId(service_events, evs[r].events[k].id).translated_description /= NULL
          \/ pe[r][k].pc = "rejected"

\* C5: a processBatch call never has more than batchSize upserts in flight.
C5_GroupBounding ==
  \A r \in Requests, s \in ServiceIds : InFlight(batch[r][s]) <= batchSize

\* C5 witness: a call over more items than one group holds, with a full group
\* in flight.
C5_Witness ==
  \E r \in Requests, s \in ServiceIds :
    /\ Len(feeds[r].items[s]) > batchSize
    /\ InFlight(batch[r][s]) = batchSize

C6_NaturalKeyUnique ==
  \A a \in service_events, b \in service_events :
    (a.service_id = b.service_id /\ a.guid = b.guid) => a = b

\* Promise k of the call (r, s) settles without an error in this step.
UpsertSucceeds(r, s, k) ==
  LET b  == batch[r][s]
      b2 == batch'[r][s]
  IN  /\ b.pc = "await"
      /\ k \in 1..Len(b.batchPromises)
      /\ b.batchPromises[k].state = "pending"
      /\ IF b2.pc = "await" /\ b2.i = b.i
         THEN b2.batchPromises[k].state = "settled" /\ b2.batchPromises[k].error = NULL
         ELSE Len(b2.results) >= b.i + k /\ b2.results[b.i + k].error = NULL

C6_UpsertStep ==
  \A r \in Requests, s \in ServiceIds, k \in 1..batchSize :
    UpsertSucceeds(r, s, k) =>
      LET item == ItemOf(batch[r][s], feeds[r].items[s], k)
          rows == {row \in service_events' : row.service_id = s /\ row.guid = item.guid}
      IN  /\ Cardinality(rows) = 1
          /\ \A row \in rows : /\ row.title = item.title
                               /\ row.description = item.content
                               /\ row.pub_date = item.isoDate
          /\ HasKey(service_events, s, item.guid) =>
               Cardinality(service_events') = Cardinality(service_events)

C7_OneResponse ==
  \A r \in Requests :
    req[r].pc = "done" => (req[r].sent = 1 /\ req[r].status \in {200, 500})

\* C8: /process-feeds answers 500 exactly when the services list failed to load.
C8_FailureOnlyOnListError ==
  \A r \in FeedReqs : req[r].status = 500 <=> feeds[r].listError

\* C9: no tick leaves a rejected promise unhandled, and the process stays up.
C9_SchedulerContainsFailures == unhandledRejections = 0 /\ alive

\* The ids of the events whose summarizer writes in this step.
WrittenIds ==
  LET calls == {p \in EventReqs \X (1..MaxEvents) :
                  /\ p[2] <= Len(pe[p[1]])
                  /\ pe[p[1]][p[2]].pc = "update"
                  /\ pe'[p[1]][p[2]].pc = "resolved"}
      posts == {r \in SummarizeReqs : req[r].pc = "update" /\ req'[r].status = 200}
  IN  {evs[p[1]].events[p[2]].id : p \in calls} \cup {evs[r].eventId : r \in posts}

\* C10: a step of the summarizer changes no row but the one whose id it was
\* given, and adds or removes none.
C10_SummarizerFrame ==
  [][/\ \A row \in service_events : row.id \notin WrittenIds => row \in service_events'
     /\ {row.id : row \in service_events'} = {row.id : row \in service_events}]_vars

\* C10 witness: two calls of one group for different events, one resolved with
\* its row summarized, the other with its update in flight and its row as it was.
C10_Witness ==
  \E r \in EventReqs : \E k1 \in 1..Len(pe[r]), k2 \in 1..Len(pe[r]) :
    /\ k1 /= k2
    /\ pe[r][k1].pc = "resolved" /\ pe[r][k2].pc = "update"
    /\ RowOfId(service_events, evs[r].events[k1].id).translated_description /= NULL
    /\ RowOfId(service_events, evs[r].events[k2].id) = evs[r].events[k2]

\* The four columns the summarizer is to fill, and the values the prompt
\* allows for status and severity.
StructuredFields ==
  {"status", "translated_description", "accumulated_time_minutes", "severity"}

StatusValues == {"investigating", "ongoing", "resolved", "maintenance"}

SeverityValues == {"critical", "major", "minor", "maintenance"}

SchemaValid(res) ==
  /\ DOMAIN res = StructuredFields
  /\ res.status \in StatusValues
  /\ res.severity \in SeverityValues

\* C11: a step in which a summarization succeeds leaves the written row with
\* a non-null translated_description and with every column other than the
\* four structured fields as it was.
C11_SummarizationFrame ==
  [][\A id \in WrittenIds :
       LET old == RowOfId(service_events, id)
           new == RowOfId(service_events', id)
       IN  /\ new.translated_description /= NULL
           /\ \A c \in (DOMAIN old) \ StructuredFields : new[c] = old[c]]_vars

\* C12: no response that violates the schema gets as far as a row update: an
\* invocation that has issued its update, or completed it, parsed an object
\* with exactly the four structured fields and listed status and severity.
C12_InvalidResponseRejected ==
  /\ \A r \in EventReqs : \A k \in 1..Len(pe[r]) :
       pe[r][k].pc \in {"update", "resolved"} => SchemaValid(pe[r][k].res)
  /\ \A r \in SummarizeReqs :
       (req[r].pc = "update" \/ req[r].status = 200) => SchemaValid(evs[r].result)

\* C13: the LLM is called only for an event that exists and whose description
\* is not empty.
C13_ValidatesBeforeLlm ==
  /\ \A r \in SummarizeReqs :
       evs[r].llmCalls > 0 =>
         (Len(evs[r].eventData) > 0 /\ evs[r].eventData[1].description /= "")
  /\ \A r \in EventReqs : \A k \in 1..Len(pe[r]) :
       pe[r][k].llmCalls > 0 => evs[r].events[k].description /= ""

\* C14: no step of an ingestion run removes a row or changes its id, its
\* natural key or any of its four structured fields; an upsert changes at most
\* title, description and publish timestamp.
C14_UpsertKeepsStructuredFields ==
  [][\A row \in service_events :
       \E new \in service_events' :
         /\ new.id = row.id
         /\ \A c \in StructuredFields \cup {"service_id", "guid"} : new[c] = row[c]]_vars

\* C14 witness: the summarized event has been upserted again, with the text
\* of the feed item, and still has its summary.
C14_Witness ==
  \E row \in service_events :
    /\ row.id = SummarizedEvent.id
    /\ row.description /= SummarizedEvent.description
    /\ row.translated_description = SummarizedEvent.translated_description
    /\ \E r \in FeedReqs : req[r].status = 200

\* The group a position of the items, or of the events, falls in.
GroupOf(k, size) == (k - 1) \div size

\* C15: whenever a member of a later group has been started (its rpc issued,
\* its processEvent called), every member of every earlier group has settled:
\* its result is in results, its processEvent call has resolved or rejected.
C15_StrictGroupSequencing ==
  /\ \A r \in Requests, s \in ServiceIds :
       LET b == batch[r][s]
       IN  \A k1 \in DOMAIN b.rpcs, k2 \in DOMAIN b.rpcs :
             (GroupOf(k1, batchSize) < GroupOf(k2, batchSize) /\ b.rpcs[k2] > 0)
               => k1 <= Len(b.results)
  /\ \A r \in EventReqs :
       \A k1 \in 1..Len(pe[r]), k2 \in 1..Len(pe[r]) :
         (GroupOf(k1, BATCH_SIZE) < GroupOf(k2, BATCH_SIZE) /\ pe[r][k2].started > 0)
           => pe[r][k1].pc \in {"resolved", "rejected"}

\* C15 witness: a /process-events run has started its second group after
\* every call of its first group resolved.
C15_Witness ==
  \E r \in EventReqs :
    /\ Len(pe[r]) > BATCH_SIZE
    /\ pe[r][BATCH_SIZE + 1].pc = "llm"
    /\ \A k \in 1..BATCH_SIZE : pe[r][k].pc = "resolved"

\* The rpc calls, and the LLM calls, that have been issued and have not
\* settled, over every request the process is handling.
UpsertsInFlight ==
  Cardinality({p \in Requests \X ServiceIds \X (1..MaxItems) :
                 /\ p[3] <= Len(batch[p[1]][p[2]].batchPromises)
                 /\ batch[p[1]][p[2]].batchPromises[p[3]].state = "pending"})

LlmCallsOf(r) == Cardinality({k \in 1..Len(pe[r]) : pe[r][k].pc = "llm"})

SummarizeCallsInFlight == Cardinality({r \in SummarizeReqs : req[r].pc = "llm"})

LlmCallsInFlight ==
  Cardinality({p \in Requests \X (1..MaxEvents) :
                 p[2] <= Len(pe[p[1]]) /\ pe[p[1]][p[2]].pc = "llm"})
    + SummarizeCallsInFlight

RunningBatches ==
  Cardinality({p \in Requests \X ServiceIds : batch[p[1]][p[2]].pc = "await"})

\* C16 as stated: at every instant the upserts in flight in the whole process,
\* and the LLM calls in flight in the whole process, number at most batchSize.
C16_SystemWideLoadBound ==
  /\ UpsertsInFlight <= batchSize
  /\ LlmCallsInFlight <= BATCH_SIZE

\* C16, amended: the bound is per call. The upserts in flight number at most
\* batchSize for every processBatch call that is running, and the LLM calls in
\* flight at most BATCH_SIZE for every /process-events request plus one for
\* every /summarize-event request that is awaiting the LLM.
C16_PerCallLoadBound ==
  /\ UpsertsInFlight <= batchSize * RunningBatches
  /\ \A r \in EventReqs : LlmCallsOf(r) <= BATCH_SIZE
  /\ LlmCallsInFlight
       <= BATCH_SIZE * Cardinality({r \in EventReqs : LlmCallsOf(r) > 0})
            + SummarizeCallsInFlight

\* C16 witness: two processBatch calls are running, each within its bound,
\* and together they have more than batchSize upserts in flight.
C16_Witness ==
  /\ RunningBatches >= 2
  /\ UpsertsInFlight > batchSize
  /\ \A r \in Requests, s \in ServiceIds : InFlight(batch[r][s]) <= batchSize

\* C17: a /process-feeds request whose services list failed to load has
\* answered 500, once, and has made no feed fetch and no processBatch call; a
\* /process-events request whose events list failed to load has answered 500,
\* once, and has made no processEvent call, hence no LLM call and no write.
C17_AggregateFailureStops ==
  /\ \A r \in FeedReqs :
       feeds[r].listError =>
         /\ req[r].status = 500 /\ req[r].sent = 1
         /\ \A s \in ServiceIds :
              /\ feeds[r].fetches[s] = 0
              /\ feeds[r].parse[s] = "none"
              /\ batch[r][s] = NoBatch
  /\ \A r \in EventReqs :
       evs[r].fetchError =>
         /\ req[r].status = 500 /\ req[r].sent = 1
         /\ pe[r] = <<>>

\* C17 witness: a /process-feeds request and a /process-events request have
\* both failed on their list and ended.
C17_Witness ==
  /\ \E r \in FeedReqs : feeds[r].listError /\ req[r].pc = "done"
  /\ \E r \in EventReqs : evs[r].fetchError /\ req[r].pc = "done"

\* A tick whose callback has ended after an ok response to its request.
OkTicks ==
  {t \in Ticks : cronJob[t] = "done"
                 /\ \E r \in ResponseOf(t) : req[r].status \in 200..299}

C18_NullUntilOkTick == lastSuccessfulCronJob /= 0 => OkTicks /= {}

C18_WrittenByOkTick ==
  lastSuccessfulCronJob' /= lastSuccessfulCronJob =>
    \E t \in Ticks :
      /\ cronJob[t] = "await" /\ cronJob'[t] = "done"
      /\ \E r \in ResponseOf(t) : req[r].status \in 200..299

\* C18: lastSuccessfulCronJob is null until a tick has ended on an ok
\* response, and the only steps that change it are the ends of such ticks: a
\* tick whose fetch throws or whose response is not ok, a request handler and
\* an operator's request leave it as it is.
C18_LastSuccessOnlyByOkTick ==
  []C18_NullUntilOkTick /\ [][C18_WrittenByOkTick]_vars

\* C18 witness: the first tick succeeded, the second ended on a 500, and
\* lastSuccessfulCronJob still holds the time of the first.
C18_Witness ==
  /\ lastSuccessfulCronJob = 1
  /\ cronJob[2] = "done"
  /\ \E r \in ResponseOf(2) : req[r].status = 500

\* The objects a response can parse to.
ParsedObjects == {text.object : text \in {t \in LlmTexts : ~ParseThrows(t)}}

\* What C19 says of every invocation alike: at most one write, issued after
\* the response was parsed, and no second LLM call.
C19_WriteAfterParse ==
  /\ \A r \in SummarizeReqs :
       /\ evs[r].llmCalls <= 1 /\ evs[r].writes <= 1
       /\ evs[r].writes = 1 =>
            /\ evs[r].llmCalls = 1
            /\ req[r].pc \in {"update", "done"}
            /\ evs[r].result \in ParsedObjects
  /\ \A r \in EventReqs : \A k \in 1..Len(pe[r]) :
       /\ pe[r][k].llmCalls <= 1 /\ pe[r][k].writes <= 1
       /\ pe[r][k].writes = 1 =>
            /\ pe[r][k].llmCalls = 1
            /\ pe[r][k].pc \in {"update", "resolved", "rejected"}
            /\ pe[r][k].res \in ParsedObjects

PostedBy(t) == {r \in Requests : req[r].origin = t}

\* C20: a tick that has fired has posted one /process-feeds request and a
\* tick that has not has posted none; a /process-feeds request has fetched
\* the feed of a service at most once and issued at most one rpc for a feed
\* item; a /process-events request has called processEvent at most once for
\* an event.
C20_AtMostOnce ==
  /\ \A t \in Ticks :
       /\ Cardinality(PostedBy(t)) = (IF cronJob[t] = "none" THEN 0 ELSE 1)
       /\ \A r \in PostedBy(t) : req[r].kind = "process-feeds"
  /\ \A r \in Requests, s \in ServiceIds :
       /\ feeds[r].fetches[s] <= 1
       /\ \A k \in DOMAIN batch[r][s].rpcs : batch[r][s].rpcs[k] <= 1
  /\ \A r \in Requests : \A k \in 1..Len(pe[r]) : pe[r][k].started <= 1

\* C20 witness: a tick's request has ended with a feed item whose one rpc
\* failed, and a /process-events request holds a processEvent call that was
\* made once and rejected.
C20_Witness ==
  /\ \E t \in Ticks : \E r \in PostedBy(t) : \E s \in ServiceIds :
       /\ req[r].pc = "done"
       /\ batch[r][s].pc = "returned"
       /\ \E k \in 1..Len(batch[r][s].results) :
            batch[r][s].results[k].error /= NULL /\ batch[r][s].rpcs[k] = 1
  /\ \E r \in EventReqs : \E k \in 1..Len(pe[r]) :
       pe[r][k].pc = "rejected" /\ pe[r][k].started = 1

\* The length of the group that starts at index i of n items.
GroupLen(n, i, size) == IF n - i < size THEN n - i ELSE size

\* C21: the groups of a processBatch call are consecutive slices: the call
\* awaits at an index that is a multiple of batchSize, its group is the next
\* batchSize items, or the one to batchSize items that are left, every item up
\* to the end of the group has had one rpc and no later item has had any, and
\* the results are those of the items before the group, in order. The call
\* returns with one rpc made per item and results[k] the outcome of items[k]:
\* for a successful upsert, the id of the row of that item's guid.
C21_ExactPartition ==
  \A r \in Requests, s \in ServiceIds :
    LET b == batch[r][s]
        items == feeds[r].items[s]
        n == Len(items)
        issued == IF b.pc = "await" THEN b.i + Len(b.batchPromises) ELSE n
    IN  b.pc /= "none" =>
          /\ b.pc = "await" =>
               /\ b.i % b.batchSize = 0 /\ b.i < n
               /\ Len(b.batchPromises) = GroupLen(n, b.i, b.batchSize)
               /\ Len(b.batchPromises) >= 1
               /\ Len(b.results) = b.i
          /\ b.pc = "returned" => Len(b.results) = n
          /\ \A k \in 1..n : b.rpcs[k] = (IF k <= issued THEN 1 ELSE 0)
          /\ \A k \in 1..Len(b.results) :
               b.results[k].error = NULL =>
                 /\ HasKey(service_events, s, items[k].guid)
                 /\ b.results[k].data = RowOfKey(service_events, s, items[k].guid).id

\* C21 witness: a call has returned over more items than one group holds, the
\* last group short of batchSize, with every upsert successful.
C21_Witness ==
  \E r \in Requests, s \in ServiceIds :
    LET b == batch[r][s]
        n == Len(feeds[r].items[s])
    IN  /\ b.pc = "returned"
        /\ n > b.batchSize /\ b.batchSize > 1
        /\ n % b.batchSize /= 0
        /\ \A k \in 1..n : b.results[k].error = NULL

\* C22: a /process-feeds run has started a processBatch call, hence issued an
\* upsert, for some service only when the feed of every service of the list
\* has been fetched and parsed.
C22_FetchBarrier ==
  \A r \in FeedReqs :
    (\E s \in ServiceIds : batch[r][s].pc /= "none" \/ batch[r][s].rpcs /= <<>>)
      => \A s \in Range(services) : feeds[r].parse[s] = "ok"

\* C22 witness: the feed of one service has arrived with items while the
\* fetch of another is pending, and no processBatch call of the run has started.
C22_Witness ==
  \E r \in FeedReqs : \E s1 \in ServiceIds, s2 \in ServiceIds :
    /\ feeds[r].parse[s1] = "ok" /\ Len(feeds[r].items[s1]) > 0
    /\ feeds[r].parse[s2] = "pending"
    /\ \A s \in ServiceIds : batch[r][s].pc = "none"

\* A processBatch call has returned with its index on the first multiple of
\* batchSize at or past the end of the items and one rpc made for every item.
ReturnedInOnePass(r, s) ==
  LET b == batch[r][s]
      n == Len(feeds[r].items[s])
  IN  /\ b.pc = "returned"
      /\ b.i % b.batchSize = 0 /\ b.i >= n /\ b.i < n + b.batchSize
      /\ \A k \in 1..n : b.rpcs[k] = 1

====
